---------------------------- MODULE Spec2Model ----------------------------
(***************************************************************************)
(* A model of target-spec's SingleTarget (src/target-spec/src/             *)
(* single_target.rs): a target identified by a triple string, together     *)
(* with the target-lexicon Triple the string parses to.                    *)
(*                                                                         *)
(* A string is a sequence of one-character strings, so that byte order,    *)
(* splitting on '-' and re-serialization are computed, not assumed.        *)
(***************************************************************************)
EXTENDS Naturals, Sequences, FiniteSets

VARIABLES
    targets,     \* the live SingleTarget values, each with the string it was built from
    rejected,    \* the strings a constructor has returned Err for
    lastResult   \* the last operation, its arguments and what it returned

vars == <<targets, rejected, lastResult>>

\* How many different SingleTarget values are kept alive at once.
MaxTargets == 3

---------------------------------------------------------------------------
(* Strings and bytes *)

Digits == <<"0", "1", "2", "3", "4", "5", "6", "7", "8", "9">>

Lower == <<"a", "b", "c", "d", "e", "f", "g", "h", "i", "j", "k", "l", "m",
           "n", "o", "p", "q", "r", "s", "t", "u", "v", "w", "x", "y", "z">>

Chars == {"-", "_"} \cup {Digits[i] : i \in 1..Len(Digits)}
                    \cup {Lower[i] : i \in 1..Len(Lower)}

\* The byte (ASCII code) of each character of a triple string.
CodeTable ==
    [c \in Chars |->
        IF c = "-" THEN 45
        ELSE IF c = "_" THEN 95
        ELSE IF \E i \in 1..Len(Digits) : Digits[i] = c
             THEN 47 + (CHOOSE i \in 1..Len(Digits) : Digits[i] = c)
             ELSE 96 + (CHOOSE i \in 1..Len(Lower) : Lower[i] = c)]

Code(c) == CodeTable[c]

\* str::as_bytes
as_bytes(s) == [k \in 1..Len(s) |-> Code(s[k])]

SetMin(S) == CHOOSE x \in S : \A y \in S : x <= y

\* Ord for integers.
int_cmp(a, b) == IF a < b THEN "Less" ELSE IF a = b THEN "Equal" ELSE "Greater"

\* Ord for byte slices: compare the common prefix, then the lengths.
slice_cmp(a, b) ==
    LET l == IF Len(a) < Len(b) THEN Len(a) ELSE Len(b)
        diff == {k \in 1..l : a[k] # b[k]}
    IN  IF diff # {}
        THEN int_cmp(a[SetMin(diff)], b[SetMin(diff)])
        ELSE int_cmp(Len(a), Len(b))

\* Ord for str: the order of the strings' bytes.
str_cmp(a, b) == slice_cmp(as_bytes(a), as_bytes(b))

\* PartialEq for str: same length and same bytes.
str_eq(a, b) ==
    /\ Len(a) = Len(b)
    /\ \A k \in 1..Len(a) : Code(a[k]) = Code(b[k])

\* Hash for str: the bytes, then the 0xff terminator, written to the hasher.
\* A hasher is modelled by the stream of bytes written to it.
str_hash(s, state) == state \o as_bytes(s) \o <<255>>

\* str::split('-'): the fields between the separators (one field when there is none).
RECURSIVE split(_)
split(s) ==
    LET seps == {k \in 1..Len(s) : s[k] = "-"}
    IN  IF seps = {}
        THEN <<s>>
        ELSE <<SubSeq(s, 1, SetMin(seps) - 1)>>
                 \o split(SubSeq(s, SetMin(seps) + 1, Len(s)))

---------------------------------------------------------------------------
(* The decomposition routine: target-lexicon's vocabulary and Triple parser *)

ArchitectureNames ==
    { << <<"x", "8", "6", "_", "6", "4">>, "X86_64" >>,
      << <<"a", "a", "r", "c", "h", "6", "4">>, "Aarch64" >>,
      << <<"i", "6", "8", "6">>, "I686" >>,
      << <<"u", "n", "k", "n", "o", "w", "n">>, "Unknown" >> }

VendorNames ==
    { << <<"u", "n", "k", "n", "o", "w", "n">>, "Unknown" >>,
      << <<"p", "c">>, "Pc" >>,
      << <<"a", "p", "p", "l", "e">>, "Apple" >> }

OperatingSystemNames ==
    { << <<"u", "n", "k", "n", "o", "w", "n">>, "Unknown" >>,
      << <<"l", "i", "n", "u", "x">>, "Linux" >>,
      << <<"d", "a", "r", "w", "i", "n">>, "Darwin" >>,
      << <<"w", "i", "n", "d", "o", "w", "s">>, "Windows" >> }

EnvironmentNames ==
    { << <<"u", "n", "k", "n", "o", "w", "n">>, "Unknown" >>,
      << <<"g", "n", "u">>, "Gnu" >>,
      << <<"m", "s", "v", "c">>, "Msvc" >> }

BinaryFormatNames ==
    { << <<"u", "n", "k", "n", "o", "w", "n">>, "Unknown" >>,
      << <<"e", "l", "f">>, "Elf" >>,
      << <<"m", "a", "c", "h", "o">>, "Macho" >>,
      << <<"c", "o", "f", "f">>, "Coff" >> }

\* FromStr of one field against its vocabulary.
field_from_str(names, s) ==
    IF \E e \in names : e[1] = s
    THEN [ok |-> TRUE, value |-> (CHOOSE e \in names : e[1] = s)[2]]
    ELSE [ok |-> FALSE, value |-> "Unknown"]

\* The binary format of a triple that names none: the operating system's own.
default_binary_format(operating_system) ==
    CASE operating_system = "Darwin"  -> "Macho"
      [] operating_system = "Windows" -> "Coff"
      [] operating_system = "Unknown" -> "Unknown"
      [] OTHER                        -> "Elf"

\* Triple::from_str: the architecture is required; vendor, operating system,
\* environment and binary format are each taken if the next field is one; a
\* field left over is an error naming the first kind of field that was missing.
parse_Triple(s) ==
    LET parts == split(s)
        n     == Len(parts)
        arch  == field_from_str(ArchitectureNames, parts[1])
        iv    == 2
        ven   == IF iv <= n THEN field_from_str(VendorNames, parts[iv])
                            ELSE [ok |-> FALSE, value |-> "Unknown"]
        io    == IF ven.ok THEN iv + 1 ELSE iv
        os    == IF io <= n THEN field_from_str(OperatingSystemNames, parts[io])
                            ELSE [ok |-> FALSE, value |-> "Unknown"]
        ie    == IF os.ok THEN io + 1 ELSE io
        env   == IF ie <= n THEN field_from_str(EnvironmentNames, parts[ie])
                            ELSE [ok |-> FALSE, value |-> "Unknown"]
        ib    == IF env.ok THEN ie + 1 ELSE ie
        bin   == IF ib <= n THEN field_from_str(BinaryFormatNames, parts[ib])
                            ELSE [ok |-> FALSE, value |-> "Unknown"]
        rest  == IF bin.ok THEN ib + 1 ELSE ib
    IN  IF ~arch.ok
        THEN [ok |-> FALSE,
              err |-> [kind |-> "UnrecognizedArchitecture", field |-> parts[1]]]
        ELSE IF rest <= n
        THEN [ok |-> FALSE,
              err |-> [kind |-> IF ~ven.ok THEN "UnrecognizedVendor"
                                ELSE IF ~os.ok THEN "UnrecognizedOperatingSystem"
                                ELSE IF ~env.ok THEN "UnrecognizedEnvironment"
                                ELSE IF ~bin.ok THEN "UnrecognizedBinaryFormat"
                                ELSE "UnrecognizedField",
                       field |-> parts[rest]]]
        ELSE [ok |-> TRUE,
              triple |-> [architecture     |-> arch.value,
                          vendor           |-> ven.value,
                          operating_system |-> os.value,
                          environment      |-> env.value,
                          binary_format    |-> IF bin.ok THEN bin.value
                                               ELSE default_binary_format(os.value)]]

\* The name a vocabulary gives a value.
name_of(names, value) == (CHOOSE e \in names : e[2] = value)[1]

\* Display for Triple: architecture-vendor-operating_system, then the
\* environment and the binary format when they are not the defaults.
Triple_to_string(t) ==
    name_of(ArchitectureNames, t.architecture) \o <<"-">>
        \o name_of(VendorNames, t.vendor) \o <<"-">>
        \o name_of(OperatingSystemNames, t.operating_system)
        \o (IF t.environment # "Unknown"
            THEN <<"-">> \o name_of(EnvironmentNames, t.environment) ELSE <<>>)
        \o (IF t.binary_format # default_binary_format(t.operating_system)
            THEN <<"-">> \o name_of(BinaryFormatNames, t.binary_format) ELSE <<>>)

\* Triple::unknown()
Triple_unknown ==
    [architecture |-> "Unknown", vendor |-> "Unknown", operating_system |-> "Unknown",
     environment |-> "Unknown", binary_format |-> "Unknown"]

---------------------------------------------------------------------------
(* SingleTarget *)

\* SingleTargetParseError::new: the input string and the lexicon's error.
SingleTargetParseError_new(triple_str, lexicon_err) ==
    [triple_str |-> triple_str, lexicon_err |-> lexicon_err]

\* SingleTarget::new with the triple re-serialized from its parse.
new_normalized(triple_str) ==
    LET parsed == parse_Triple(triple_str)
    IN  IF parsed.ok
        THEN [ok |-> TRUE,
              value |-> [triple_str     |-> Triple_to_string(parsed.triple),
                         lexicon_triple |-> parsed.triple]]
        ELSE [ok |-> FALSE,
              err |-> SingleTargetParseError_new(triple_str, parsed.err)]

\* SingleTarget::new that falls back to the unknown target on a parse error.
new_defaulting(triple_str) ==
    LET parsed == parse_Triple(triple_str)
    IN  [ok |-> TRUE,
         value |-> [triple_str     |-> triple_str,
                    lexicon_triple |-> IF parsed.ok THEN parsed.triple
                                       ELSE Triple_unknown]]

\* SingleTarget::new that keeps the binary format the string names, or none.
new_explicit_format(triple_str) ==
    LET parsed == parse_Triple(triple_str)
        last   == split(triple_str)[Len(split(triple_str))]
    IN  IF parsed.ok
        THEN [ok |-> TRUE,
              value |-> [triple_str     |-> triple_str,
                         lexicon_triple |->
                             [parsed.triple EXCEPT !.binary_format =
                                 field_from_str(BinaryFormatNames, last).value]]]
        ELSE [ok |-> FALSE,
              err |-> SingleTargetParseError_new(triple_str, parsed.err)]

\* SingleTarget::new
new(triple_str) ==
    LET parsed == parse_Triple(triple_str)
    IN  IF parsed.ok
        THEN [ok |-> TRUE,
              value |-> [triple_str     |-> triple_str,
                         lexicon_triple |-> parsed.triple]]
        ELSE [ok |-> FALSE,
              err |-> SingleTargetParseError_new(triple_str, parsed.err)]

\* FromStr::from_str with the triple re-serialized from its parse.
from_str_normalized(triple_str) == new_normalized(triple_str)

\* <SingleTarget as FromStr>::from_str
from_str(triple_str) ==
    LET parsed == parse_Triple(triple_str)
    IN  IF parsed.ok
        THEN [ok |-> TRUE,
              value |-> [triple_str     |-> triple_str,
                         lexicon_triple |-> parsed.triple]]
        ELSE [ok |-> FALSE,
              err |-> SingleTargetParseError_new(triple_str, parsed.err)]

\* SingleTarget::triple_str
triple_str_of(self) == self.triple_str

\* PartialEq that compares the parsed triples.
eq_by_triple(self, other) == self.lexicon_triple = other.lexicon_triple

\* <SingleTarget as PartialEq>::eq
eq(self, other) == str_eq(self.triple_str, other.triple_str)

\* Platform: a SingleTarget with target features and flags.
Platform_new(single_target, target_features, flags) ==
    [single_target |-> single_target, target_features |-> target_features,
     flags |-> flags]

\* Platform::single_target
single_target(platform) == platform.single_target

\* SingleTarget::eval that also requires the platform to carry no target features.
eval_with_features(self, platform) ==
    eq(self, single_target(platform)) /\ platform.target_features = "Unknown"

\* SingleTarget::eval
eval(self, platform) == eq(self, single_target(platform))

\* TargetPredicate::matches: the predicate's attribute of the triple has its value.
TargetPredicate_matches(target, triple) ==
    CASE target.attr = "Arch"   -> triple.architecture = target.value
      [] target.attr = "Vendor" -> triple.vendor = target.value
      [] target.attr = "Os"     -> triple.operating_system = target.value
      [] target.attr = "Env"    -> triple.environment = target.value

\* SingleTarget::matches that looks for the predicate's name in the string's fields.
matches_by_text(self, target) ==
    \E k \in 1..Len(split(self.triple_str)) :
        \/ field_from_str(ArchitectureNames, split(self.triple_str)[k])
               = [ok |-> TRUE, value |-> target.value]
        \/ field_from_str(OperatingSystemNames, split(self.triple_str)[k])
               = [ok |-> TRUE, value |-> target.value]

\* SingleTarget::matches
matches(self, target) == TargetPredicate_matches(target, self.lexicon_triple)

\* Ord that compares the lengths of the strings first.
cmp_by_len(self, other) ==
    IF Len(self.triple_str) # Len(other.triple_str)
    THEN int_cmp(Len(self.triple_str), Len(other.triple_str))
    ELSE str_cmp(self.triple_str, other.triple_str)

\* <SingleTarget as Ord>::cmp
cmp(self, other) == str_cmp(self.triple_str, other.triple_str)

\* <SingleTarget as PartialOrd>::partial_cmp
partial_cmp(self, other) ==
    [some |-> TRUE, value |-> str_cmp(self.triple_str, other.triple_str)]

\* Hash that feeds the vendor of the parsed triple as well.
hash_with_triple(self, state) ==
    str_hash(self.triple_str, state) \o <<Len(name_of(VendorNames, self.lexicon_triple.vendor))>>

\* <SingleTarget as Hash>::hash
hash(self, state) == str_hash(self.triple_str, state)

\* Clone that derives the triple string from the parsed triple.
clone_derived(self) ==
    [triple_str |-> Triple_to_string(self.lexicon_triple),
     lexicon_triple |-> self.lexicon_triple]

\* Clone
clone(self) == [triple_str |-> self.triple_str, lexicon_triple |-> self.lexicon_triple]

---------------------------------------------------------------------------
(* The program: constructions and calls on the values constructed *)

\* "x86_64-pc-darwin"
X86_64_PC_DARWIN == <<"x", "8", "6", "_", "6", "4", "-", "p", "c", "-", "d", "a", "r", "w", "i", "n">>

\* "x86_64-linux"
X86_64_LINUX == <<"x", "8", "6", "_", "6", "4", "-", "l", "i", "n", "u", "x">>

\* "x86_64-unknown-linux"
X86_64_UNKNOWN_LINUX == <<"x", "8", "6", "_", "6", "4", "-", "u", "n", "k", "n", "o", "w", "n", "-", "l", "i", "n", "u", "x">>

\* "cannot-be-known"
CANNOT_BE_KNOWN == <<"c", "a", "n", "n", "o", "t", "-", "b", "e", "-", "k", "n", "o", "w", "n">>

\* The strings handed to the constructors: "x86_64-pc-darwin",
\* "x86_64-pc-darwin-macho", "x86_64-linux", "x86_64-unknown-linux",
\* "x86_64-unknown-linux-gnu", "cannot-be-known", "x86_64-pc-be".
TripleStrings ==
    { X86_64_PC_DARWIN,
      <<"x", "8", "6", "_", "6", "4", "-", "p", "c", "-", "d", "a", "r", "w", "i", "n", "-", "m", "a", "c", "h", "o">>,
      X86_64_LINUX,
      X86_64_UNKNOWN_LINUX,
      <<"x", "8", "6", "_", "6", "4", "-", "u", "n", "k", "n", "o", "w", "n", "-", "l", "i", "n", "u", "x", "-", "g", "n", "u">>,
      CANNOT_BE_KNOWN,
      <<"x", "8", "6", "_", "6", "4", "-", "p", "c", "-", "b", "e">> }

\* The predicates handed to matches.
TargetPredicates ==
    { [attr |-> "Os", value |-> "Darwin"], [attr |-> "Os", value |-> "Linux"],
      [attr |-> "Vendor", value |-> "Unknown"], [attr |-> "Env", value |-> "Gnu"],
      [attr |-> "Arch", value |-> "X86_64"] }

\* The target features and the flags a platform carries.
TargetFeatures == {"Unknown", "All"}
PlatformFlags == {{}, {"flag"}}

\* The hasher states hash is called with.
HasherStates == {<<>>, <<0>>}

NoResult == [op |-> "none", self |-> "none", other |-> "none", input |-> <<>>,
             arg |-> "none", value |-> "none"]

\* A live value: the SingleTarget and, for reference, the string its
\* constructor was given. Live values of equal content are one element: no
\* operation tells them apart.
Live(s, target) == [origin |-> s, value |-> target]

Init ==
    /\ targets = {}
    /\ rejected = {}
    /\ lastResult = NoResult

\* The live values once a constructor has returned: an Ok value becomes live.
targets_after(s, result) ==
    IF result.ok THEN targets \cup {Live(s, result.value)} ELSE targets

\* The strings rejected once a constructor has returned: an Err is remembered
\* by the string that caused it.
rejected_after(s, result) ==
    IF result.ok THEN rejected ELSE rejected \cup {s}

\* Whether a constructor has been given the string before.
seen_before(s) ==
    IF s \in rejected \/ \E x \in targets : x.origin = s THEN "again" ELSE "first"

New ==
    \E s \in TripleStrings :
        LET result == new(s)
        IN  /\ Cardinality(targets_after(s, result)) <= MaxTargets
            /\ targets' = targets_after(s, result)
            /\ rejected' = rejected_after(s, result)
            /\ lastResult' = [NoResult EXCEPT !.op = "new", !.input = s,
                                              !.arg = seen_before(s),
                                              !.value = result]

FromStr ==
    \E s \in TripleStrings :
        LET result == from_str(s)
        IN  /\ Cardinality(targets_after(s, result)) <= MaxTargets
            /\ targets' = targets_after(s, result)
            /\ rejected' = rejected_after(s, result)
            /\ lastResult' = [NoResult EXCEPT !.op = "from_str", !.input = s,
                                              !.arg = seen_before(s),
                                              !.value = result]

Clone ==
    \E x \in targets :
        /\ Cardinality(targets \cup {Live(x.origin, clone(x.value))}) <= MaxTargets
        /\ targets' = targets \cup {Live(x.origin, clone(x.value))}
        /\ lastResult' = [NoResult EXCEPT !.op = "clone", !.self = x,
                                          !.value = clone(x.value)]
        /\ UNCHANGED rejected

\* A call that only reads its arguments.
Returned(op, x, y, arg, value) ==
    /\ lastResult' = [NoResult EXCEPT !.op = op, !.self = x, !.other = y,
                                      !.arg = arg, !.value = value]
    /\ UNCHANGED <<targets, rejected>>

TripleStr ==
    \E x \in targets :
        Returned("triple_str", x, "none", "none", triple_str_of(x.value))

Eval ==
    \E x, y \in targets, tf \in TargetFeatures, fl \in PlatformFlags :
        LET platform == Platform_new(clone(y.value), tf, fl)
        IN  Returned("eval", x, y, platform, eval(x.value, platform))

Matches ==
    \E x \in targets, p \in TargetPredicates :
        Returned("matches", x, "none", p, matches(x.value, p))

Eq ==
    \E x, y \in targets :
        Returned("eq", x, y, "none", eq(x.value, y.value))

PartialCmp ==
    \E x, y \in targets :
        Returned("partial_cmp", x, y, "none", partial_cmp(x.value, y.value))

Cmp ==
    \E x, y \in targets :
        Returned("cmp", x, y, "none", cmp(x.value, y.value))

Hash ==
    \E x \in targets, state \in HasherStates :
        Returned("hash", x, "none", state, hash(x.value, state))

Next ==
    \/ New
    \/ FromStr
    \/ Clone
    \/ TripleStr
    \/ Eval
    \/ Matches
    \/ Eq
    \/ PartialCmp
    \/ Cmp
    \/ Hash

Spec == Init /\ [][Next]_vars

---------------------------------------------------------------------------
(* Properties *)

Constructors == {"new", "from_str"}

\* The strings of the live values.
Origins == {x.origin : x \in targets}

\* a is before b in the lexicographic order of their bytes: they agree on a
\* prefix after which a ends and b goes on, or a has the smaller byte.
LexLess(a, b) ==
    \E k \in 0..Len(a) :
        /\ k <= Len(b)
        /\ \A m \in 1..k : a[m] = b[m]
        /\ \/ k = Len(a) /\ k < Len(b)
           \/ k < Len(a) /\ k < Len(b) /\ Code(a[k + 1]) < Code(b[k + 1])

LexOrder(a, b) ==
    IF LexLess(a, b) THEN "Less" ELSE IF LexLess(b, a) THEN "Greater" ELSE "Equal"

\* C1. Round-trip identity: new(s) succeeds for every string s the
\* decomposition routine accepts, and triple_str() of the value returns
\* exactly s, never the re-serialized decomposition.
RoundTripIdentity ==
    /\ lastResult.op = "new" /\ parse_Triple(lastResult.input).ok
          => /\ lastResult.value.ok
             /\ triple_str_of(lastResult.value.value) = lastResult.input
    /\ lastResult.op = "triple_str" => lastResult.value = lastResult.self.origin
    /\ \A x \in targets : triple_str_of(x.value) = x.origin

\* triple_str() has returned "x86_64-linux", whose re-serialized form would
\* be "x86_64-unknown-linux".
RoundTripWitness ==
    /\ lastResult.op = "triple_str"
    /\ lastResult.self.origin = X86_64_LINUX
    /\ lastResult.value = X86_64_LINUX
    /\ Triple_to_string(lastResult.self.value.lexicon_triple) # X86_64_LINUX

\* C2. Equality consistency: new(a).eval(platform based on new(b)) and
\* new(a) == new(b) are true if and only if a = b as text, whatever the
\* decompositions and the platform's target features and flags.
EqualityConsistency ==
    /\ lastResult.op \in {"eval", "eq"}
          => lastResult.value = (lastResult.self.origin = lastResult.other.origin)
    /\ \A x, y \in targets, tf \in TargetFeatures, fl \in PlatformFlags :
          /\ eq(x.value, y.value) = (x.origin = y.origin)
          /\ eval(x.value, Platform_new(y.value, tf, fl)) = (x.origin = y.origin)

\* eval has returned false for two different strings of one decomposition,
\* on a platform that carries features and flags.
EqualityWitness ==
    /\ lastResult.op = "eval"
    /\ lastResult.value = FALSE
    /\ lastResult.self.origin # lastResult.other.origin
    /\ lastResult.self.value.lexicon_triple = lastResult.other.value.lexicon_triple
    /\ lastResult.arg.target_features = "All"
    /\ lastResult.arg.flags # {}

\* C3. Unknown triple rejection: when the decomposition routine rejects s,
\* new(s) and s.parse() return an error that carries s and the routine's
\* error; no SingleTarget is produced, none is substituted.
UnknownTripleRejection ==
    /\ lastResult.op \in Constructors /\ ~parse_Triple(lastResult.input).ok
          => /\ ~lastResult.value.ok
             /\ lastResult.value.err.triple_str = lastResult.input
             /\ lastResult.value.err.lexicon_err = parse_Triple(lastResult.input).err
    /\ \A x \in targets : parse_Triple(x.origin).ok

\* new("cannot-be-known") has returned its error.
RejectionWitness ==
    /\ lastResult.op = "new"
    /\ lastResult.input = CANNOT_BE_KNOWN
    /\ ~lastResult.value.ok
    /\ lastResult.value.err.triple_str = CANNOT_BE_KNOWN
    /\ CANNOT_BE_KNOWN \in rejected

\* C4. Ordering totality: cmp is the lexicographic order of the triple
\* strings: exactly one of x<y, x==y, x>y holds, it is transitive, cmp(x,y)
\* is the reverse of cmp(y,x), it is Equal exactly when x == y, and
\* partial_cmp is Some(cmp).
OrderingTotality ==
    /\ lastResult.op = "cmp"
          => lastResult.value = LexOrder(lastResult.self.origin, lastResult.other.origin)
    /\ lastResult.op = "partial_cmp"
          => lastResult.value =
                 [some |-> TRUE,
                  value |-> LexOrder(lastResult.self.origin, lastResult.other.origin)]
    /\ \A x, y \in targets :
          /\ cmp(x.value, y.value) = LexOrder(x.origin, y.origin)
          /\ Cardinality({r \in {"lt", "eq", "gt"} :
                 \/ r = "lt" /\ cmp(x.value, y.value) = "Less"
                 \/ r = "eq" /\ eq(x.value, y.value)
                 \/ r = "gt" /\ cmp(x.value, y.value) = "Greater"}) = 1
          /\ cmp(x.value, y.value) = "Less" <=> cmp(y.value, x.value) = "Greater"
          /\ cmp(x.value, y.value) = "Equal" <=> eq(x.value, y.value)
          /\ partial_cmp(x.value, y.value)
                 = [some |-> TRUE, value |-> cmp(x.value, y.value)]
    /\ \A x, y, z \in targets :
          cmp(x.value, y.value) = "Less" /\ cmp(y.value, z.value) = "Less"
              => cmp(x.value, z.value) = "Less"

\* cmp has returned Less for a string and the longer string it is a prefix
\* of, with a third string alive that is before both and longer than the first.
OrderingWitness ==
    /\ lastResult.op = "cmp"
    /\ lastResult.value = "Less"
    /\ Len(lastResult.self.origin) < Len(lastResult.other.origin)
    /\ SubSeq(lastResult.other.origin, 1, Len(lastResult.self.origin))
           = lastResult.self.origin
    /\ \E z \in targets :
          /\ cmp(z.value, lastResult.self.value) = "Less"
          /\ Len(z.origin) > Len(lastResult.self.origin)

\* C5. Hash/equality contract: x == y (as eq and as eval) implies
\* hash(x) = hash(y); the hash is that of the triple string alone.
HashEqualityContract ==
    /\ lastResult.op = "hash"
          => lastResult.value = str_hash(lastResult.self.origin, lastResult.arg)
    /\ \A x, y \in targets, state \in HasherStates :
          /\ eq(x.value, y.value) => hash(x.value, state) = hash(y.value, state)
          /\ eval(x.value, Platform_new(y.value, "All", {}))
                 => hash(x.value, state) = hash(y.value, state)
          /\ x.origin = y.origin <=> hash(x.value, state) = hash(y.value, state)

\* hash has written a value's string to a hasher that held a byte already,
\* while values that are equal and values that are not are alive.
HashWitness ==
    /\ lastResult.op = "hash"
    /\ lastResult.arg = <<0>>
    /\ Len(lastResult.value) = Len(lastResult.self.origin) + 2
    /\ \E x, y \in targets : eq(x.value, y.value)
    /\ \E x, y \in targets : ~eq(x.value, y.value)

\* C6. Known triple acceptance and decomposition: the decomposition stored by
\* new(s) is that of the decomposition routine; new("x86_64-pc-darwin")
\* succeeds with x86_64, pc, darwin, unknown environment and mach-o.
KnownTripleDecomposition ==
    /\ lastResult.op \in Constructors /\ parse_Triple(lastResult.input).ok
          => /\ lastResult.value.ok
             /\ lastResult.value.value.lexicon_triple
                    = parse_Triple(lastResult.input).triple
    /\ lastResult.op = "new" /\ lastResult.input = X86_64_PC_DARWIN
          => /\ lastResult.value.ok
             /\ lastResult.value.value.lexicon_triple
                    = [architecture     |-> "X86_64",
                       vendor           |-> "Pc",
                       operating_system |-> "Darwin",
                       environment      |-> "Unknown",
                       binary_format    |-> "Macho"]
    /\ \A x \in targets : x.value.lexicon_triple = parse_Triple(x.origin).triple

\* new("x86_64-pc-darwin") has returned a value whose binary format is mach-o.
KnownTripleWitness ==
    /\ lastResult.op = "new"
    /\ lastResult.input = X86_64_PC_DARWIN
    /\ lastResult.value.ok
    /\ lastResult.value.value.lexicon_triple.binary_format = "Macho"
    /\ Live(X86_64_PC_DARWIN, lastResult.value.value) \in targets

\* C7. Predicate matching is delegation and cannot fail: t.matches(p) is
\* p.matches(decompose(t.triple_str())); on "x86_64-pc-darwin", "os is
\* darwin" is true and "os is linux" is false.
MatchesDelegates ==
    /\ lastResult.op = "matches"
          => /\ lastResult.value \in BOOLEAN
             /\ lastResult.value =
                    TargetPredicate_matches(lastResult.arg,
                        parse_Triple(triple_str_of(lastResult.self.value)).triple)
             /\ lastResult.self.origin = X86_64_PC_DARWIN
                    => /\ lastResult.arg = [attr |-> "Os", value |-> "Darwin"]
                           => lastResult.value = TRUE
                       /\ lastResult.arg = [attr |-> "Os", value |-> "Linux"]
                           => lastResult.value = FALSE
    /\ \A x \in targets, p \in TargetPredicates :
          matches(x.value, p)
              = TargetPredicate_matches(p, parse_Triple(triple_str_of(x.value)).triple)

\* matches has returned true for "os is darwin" on "x86_64-pc-darwin".
MatchesWitness ==
    /\ lastResult.op = "matches"
    /\ lastResult.self.origin = X86_64_PC_DARWIN
    /\ lastResult.arg = [attr |-> "Os", value |-> "Darwin"]
    /\ lastResult.value = TRUE
    /\ ~matches(lastResult.self.value, [attr |-> "Os", value |-> "Linux"])

\* C8. Determinism: values constructed from the same string are equal,
\* compare Equal, hash equal, carry the same decomposition and match the
\* same predicates; a string rejected once is rejected every time.
Determinism ==
    /\ \A x, y \in targets :
          x.origin = y.origin
              => /\ eq(x.value, y.value)
                 /\ cmp(x.value, y.value) = "Equal"
                 /\ \A state \in HasherStates :
                        hash(x.value, state) = hash(y.value, state)
                 /\ x.value.lexicon_triple = y.value.lexicon_triple
                 /\ \A p \in TargetPredicates :
                        matches(x.value, p) = matches(y.value, p)
    /\ rejected \cap Origins = {}
    /\ lastResult.op \in Constructors
          => /\ lastResult.value.ok <=> lastResult.input \in Origins
             /\ ~lastResult.value.ok <=> lastResult.input \in rejected

\* from_str has been given a string a constructor was given before, and has
\* returned a value; a string has been rejected as well.
DeterminismWitness ==
    /\ lastResult.op = "from_str"
    /\ lastResult.arg = "again"
    /\ lastResult.value.ok
    /\ Cardinality({x \in targets : x.origin = lastResult.input}) = 1
    /\ rejected # {}

\* C9. Identity/matching asymmetry: two different strings of one
\* decomposition give values that are not equal and do not eval to true
\* against each other, and that match the same predicates.
IdentityMatchingAsymmetry ==
    /\ \A x, y \in targets :
          /\ x.origin # y.origin
          /\ parse_Triple(x.origin).triple = parse_Triple(y.origin).triple
          => /\ ~eq(x.value, y.value)
             /\ \A tf \in TargetFeatures, fl \in PlatformFlags :
                    ~eval(x.value, Platform_new(y.value, tf, fl))
             /\ \A p \in TargetPredicates :
                    matches(x.value, p) = matches(y.value, p)
    /\ /\ lastResult.op \in {"eq", "eval"}
       /\ lastResult.self.origin # lastResult.other.origin
       /\ parse_Triple(lastResult.self.origin).triple
              = parse_Triple(lastResult.other.origin).triple
       => lastResult.value = FALSE

\* eq has returned false for "x86_64-linux" and "x86_64-unknown-linux", which
\* match the same predicates.
AsymmetryWitness ==
    /\ lastResult.op = "eq"
    /\ lastResult.self.origin = X86_64_LINUX
    /\ lastResult.other.origin = X86_64_UNKNOWN_LINUX
    /\ lastResult.value = FALSE
    /\ \A p \in TargetPredicates :
          matches(lastResult.self.value, p) = matches(lastResult.other.value, p)

\* What holds of the live values in every state: each decomposition is that
\* of its string, the two constructors agree, a clone is its original.
InSync ==
    /\ \A x \in targets :
          /\ parse_Triple(x.value.triple_str).ok
          /\ x.value.lexicon_triple = parse_Triple(x.value.triple_str).triple
          /\ x.value.triple_str = x.origin
    /\ lastResult.op = "new" => lastResult.value = from_str(lastResult.input)
    /\ lastResult.op = "from_str" => lastResult.value = new(lastResult.input)
    /\ lastResult.op = "clone" => lastResult.value = lastResult.self.value

\* C10. Immutability and sync: no operation changes a live value's string or
\* decomposition, the decomposition stays that of the string, and new and
\* from_str agree on every input.
ImmutableAndInSync == []InSync /\ [][targets \subseteq targets']_vars

\* A value has been cloned with as many values alive as there can be.
ImmutableWitness ==
    /\ lastResult.op = "clone"
    /\ lastResult.self \in targets
    /\ Live(lastResult.self.origin, lastResult.value) \in targets
    /\ Cardinality(targets) = MaxTargets

===========================================================================
